---- MODULE Spec2Model ----
(***************************************************************************)
(* Model of data/status.go of nfip-search: the CSV-to-record loader        *)
(* (unmarshal), its scalar parsers (parseDate, iToMonth,                   *)
(* parseBoolFromYesNo), the field cleaning (strings.Trim) and Search.      *)
(*                                                                         *)
(* A Go string is modelled as a sequence of one-character strings, so that *)
(* trimming, digit-run extraction, case folding and substring search are   *)
(* computed character by character as the code does.                       *)
(***************************************************************************)
EXTENDS Integers, Sequences, FiniteSets, TLC

VARIABLES
    pc,                   \* position of the running operation
    fieldsPerRecord,      \* csv.Reader.FieldsPerRecord (0 until the first record is read)
    file,                 \* the data records the reader has yielded so far
    firstPass,            \* unmarshal: firstPass
    lineNumber,           \* unmarshal: lineNumber
    communities,          \* unmarshal: communities (the local being built)
    ret,                  \* unmarshal: the returned (collection, error) pair
    dateIn,               \* parseDate: the argument s
    dateOut,              \* parseDate: the returned (time, error) pair
    local,                \* time.Local: the zone the process runs in
    cleanIn,              \* the text N that gets wrapped as ="N"
    cleanOut,             \* the cleaned cell
    c,                    \* Search: the receiver collection
    termArg,              \* Search: term as the caller passed it
    term,                 \* Search: term (lowercased by the first statement)
    idx,                  \* Search: position of the range loop
    matchingCommunities   \* Search: matchingCommunities

vars == <<pc, fieldsPerRecord, file, firstPass, lineNumber, communities, ret,
          dateIn, dateOut, local, cleanIn, cleanOut, c, termArg, term, idx,
          matchingCommunities>>

loadVars == <<fieldsPerRecord, file, firstPass, lineNumber, communities, ret>>
dateVars == <<dateIn, dateOut, local>>
cleanVars == <<cleanIn, cleanOut>>
searchVars == <<c, termArg, term, idx, matchingCommunities>>

-----------------------------------------------------------------------------
(* Column positions: the iota constants of status.go.                      *)
StatusCID == 0
StatusCommunityName == 1
StatusCounty == 2
StatusFHBMIdentified == 3
StatusFIRMIdentified == 4
StatusCurrEffMapDate == 5
StatusRegEmerDate == 6
StatusTribal == 7
StatusCRSEntryDate == 8
StatusCurrEffDate == 9
StatusCurClass == 10
StatusPercentDiscSFHA == 11
StausPercentNonSFHA == 12
StatusProgram == 13
StatusParticipatingCommunity == 14

-----------------------------------------------------------------------------
(* Characters and strings.                                                 *)

Digits == {"0", "1", "2", "3", "4", "5", "6", "7", "8", "9"}

DigitVal(ch) ==
    CASE ch = "0" -> 0 [] ch = "1" -> 1 [] ch = "2" -> 2 [] ch = "3" -> 3
      [] ch = "4" -> 4 [] ch = "5" -> 5 [] ch = "6" -> 6 [] ch = "7" -> 7
      [] ch = "8" -> 8 [] ch = "9" -> 9

DigitChar(n) ==
    CASE n = 0 -> "0" [] n = 1 -> "1" [] n = 2 -> "2" [] n = 3 -> "3"
      [] n = 4 -> "4" [] n = 5 -> "5" [] n = 6 -> "6" [] n = 7 -> "7"
      [] n = 8 -> "8" [] n = 9 -> "9"

\* unicode.ToLower on one ASCII character
ToLowerChar(ch) ==
    CASE ch = "A" -> "a" [] ch = "B" -> "b" [] ch = "C" -> "c" [] ch = "D" -> "d"
      [] ch = "E" -> "e" [] ch = "F" -> "f" [] ch = "G" -> "g" [] ch = "H" -> "h"
      [] ch = "I" -> "i" [] ch = "J" -> "j" [] ch = "K" -> "k" [] ch = "L" -> "l"
      [] ch = "M" -> "m" [] ch = "N" -> "n" [] ch = "O" -> "o" [] ch = "P" -> "p"
      [] ch = "Q" -> "q" [] ch = "R" -> "r" [] ch = "S" -> "s" [] ch = "T" -> "t"
      [] ch = "U" -> "u" [] ch = "V" -> "v" [] ch = "W" -> "w" [] ch = "X" -> "x"
      [] ch = "Y" -> "y" [] ch = "Z" -> "z" [] OTHER -> ch

\* strings.ToLower
ToLower(s) == [k \in 1..Len(s) |-> ToLowerChar(s[k])]

\* strings.TrimLeft(s, cutset)
RECURSIVE TrimLeft(_, _)
TrimLeft(s, cutset) ==
    IF s # <<>> /\ Head(s) \in cutset THEN TrimLeft(Tail(s), cutset) ELSE s

\* strings.TrimRight(s, cutset)
RECURSIVE TrimRight(_, _)
TrimRight(s, cutset) ==
    IF s # <<>> /\ s[Len(s)] \in cutset
    THEN TrimRight(SubSeq(s, 1, Len(s) - 1), cutset)
    ELSE s

\* strings.Trim(s, cutset): every leading and trailing character of cutset
Trim(s, cutset) == TrimRight(TrimLeft(s, cutset), cutset)

\* the cutset "\"=" of the cleaning loop
CleanCutset == {"\"", "="}

\* the cleaning of one cell: strings.Trim(record[i], "\"=")
TrimLeadingOnly(cell) == TrimLeft(cell, CleanCutset)
CleanCell(cell) == Trim(cell, CleanCutset)

\* the cleaning loop over a whole record
CleanRecord(record) == [k \in 1..Len(record) |-> CleanCell(record[k])]

\* strings.Contains(s, substr): some offset at which substr starts
RECURSIVE Contains(_, _)
Contains(s, substr) ==
    IF Len(substr) > Len(s) THEN FALSE
    ELSE IF SubSeq(s, 1, Len(substr)) = substr THEN TRUE
    ELSE Contains(Tail(s), substr)

-----------------------------------------------------------------------------
(* strconv.Itoa and strconv.Atoi.                                          *)

RECURSIVE UItoa(_)
UItoa(n) == IF n < 10 THEN <<DigitChar(n)>> ELSE Append(UItoa(n \div 10), DigitChar(n % 10))

\* strconv.Itoa
Itoa(n) == IF n < 0 THEN <<"-">> \o UItoa(-n) ELSE UItoa(n)

RECURSIVE DigitsValue(_)
DigitsValue(ds) ==
    IF ds = <<>> THEN 0 ELSE DigitsValue(SubSeq(ds, 1, Len(ds) - 1)) * 10 + DigitVal(ds[Len(ds)])

\* decimal text of the largest int (2^63 - 1), 19 digits
MaxIntText == <<"9","2","2","3","3","7","2","0","3","6","8","5","4","7","7","5","8","0","7">>

\* a, b digit strings of the same length: a > b as numbers
RECURSIVE DigitsGreater(_, _)
DigitsGreater(a, b) ==
    IF a = <<>> THEN FALSE
    ELSE IF DigitVal(Head(a)) # DigitVal(Head(b)) THEN DigitVal(Head(a)) > DigitVal(Head(b))
    ELSE DigitsGreater(Tail(a), Tail(b))

\* decimal text of the magnitude of the smallest int (2^63)
MinIntText == <<"9","2","2","3","3","7","2","0","3","6","8","5","4","7","7","5","8","0","8">>

\* the digits, with the sign, denote a value outside the int range
OutOfRange(ds, neg) ==
    LET sig == TrimLeft(ds, {"0"})
        lim == IF neg THEN MinIntText ELSE MaxIntText
    IN  \/ Len(sig) > Len(lim)
        \/ Len(sig) = Len(lim) /\ DigitsGreater(sig, lim)

\* strconv.Atoi: optional sign, then one or more decimal digits, within int range
Atoi(s) ==
    IF s = <<>> THEN [ok |-> FALSE, val |-> 0]
    ELSE LET signed == Head(s) \in {"+", "-"}
             ds == IF signed THEN Tail(s) ELSE s
         IN  IF ds = <<>> \/ \E k \in 1..Len(ds) : ds[k] \notin Digits
             THEN [ok |-> FALSE, val |-> 0]
             ELSE IF OutOfRange(ds, Head(s) = "-") THEN [ok |-> FALSE, val |-> 0]
             ELSE [ok |-> TRUE,
                   val |-> IF Head(s) = "-" THEN 0 - DigitsValue(ds) ELSE DigitsValue(ds)]

-----------------------------------------------------------------------------
(* parseDate, iToMonth and time.Date.                                      *)

\* a time.Time, as the calendar date and the hour it shows in its location; the
\* zero value time.Time{} is 1-01-01 00:00
ZeroTime == [year |-> 1, month |-> 1, day |-> 1, hour |-> 0]

\* regexp "([0-9]+)" FindAllString(s, n): the first n maximal digit runs, left to right
RECURSIVE FindAllDigitRuns(_, _)
FindAllDigitRuns(s, n) ==
    IF n = 0 \/ s = <<>> THEN <<>>
    ELSE IF Head(s) \notin Digits THEN FindAllDigitRuns(Tail(s), n)
    ELSE LET rest == TrimLeft(s, Digits)
             run == SubSeq(s, 1, Len(s) - Len(rest))
         IN  <<run>> \o FindAllDigitRuns(rest, n - 1)

\* iToMonth: the switch over 1..12, default an error
iToMonth(i) ==
    IF i \in 1..12 THEN [ok |-> TRUE, month |-> i] ELSE [ok |-> FALSE, month |-> -1]

IsLeap(year) == year % 4 = 0 /\ (year % 100 # 0 \/ year % 400 = 0)

DaysIn(month, year) ==
    CASE month \in {4, 6, 9, 11} -> 30
      [] month = 2 -> IF IsLeap(year) THEN 29 ELSE 28
      [] OTHER -> 31

\* the calendar date time.Date normalises year, month (in 1..12), day to: a day
\* outside the month is carried into the neighbouring months and years
RECURSIVE Civil(_, _, _)
Civil(year, month, day) ==
    IF day < 1
    THEN LET pm == IF month = 1 THEN 12 ELSE month - 1
             py == IF month = 1 THEN year - 1 ELSE year
         IN  Civil(py, pm, day + DaysIn(pm, py))
    ELSE IF day > DaysIn(month, year)
    THEN Civil(IF month = 12 THEN year + 1 ELSE year,
               IF month = 12 THEN 1 ELSE month + 1,
               day - DaysIn(month, year))
    ELSE [year |-> year, month |-> month, day |-> day]

\* day of the week of a calendar date, 0 = Sunday
DayOfWeek(year, month, day) ==
    LET t == <<0, 3, 2, 5, 0, 3, 5, 1, 4, 6, 2, 4>>
        y == IF month < 3 THEN year - 1 ELSE year
    IN  (y + (y \div 4) - (y \div 100) + (y \div 400) + t[month] + day) % 7

\* the zones time.Local is drawn from: UTC, three zones west of Greenwich and one
\* east of it whose daylight saving time has begun at local midnight
Locations ==
    {"UTC", "America/Havana", "America/Sao_Paulo", "America/Santiago", "Asia/Beirut"}

\* the zone's offset from UTC is negative
WestOfUTC(loc) == loc \in {"America/Havana", "America/Sao_Paulo", "America/Santiago"}

\* the dates up to 2022 whose local midnight the zone's clock skipped (the
\* transitions of the time zone database that fall on 00:00 local time)
HavanaSkipped ==
    { <<1928, 6, 10>>, <<1940, 6, 2>>, <<1941, 6, 1>>, <<1942, 6, 7>>, <<1945, 6, 3>>,
    <<1946, 6, 2>>, <<1965, 6, 1>>, <<1966, 5, 29>>, <<1967, 4, 8>>, <<1968, 4, 14>>,
    <<1969, 4, 27>>, <<1970, 4, 26>>, <<1971, 4, 25>>, <<1972, 4, 30>>, <<1973, 4, 29>>,
    <<1974, 4, 28>>, <<1975, 4, 27>>, <<1976, 4, 25>>, <<1977, 4, 24>>, <<1978, 5, 7>>,
    <<1979, 3, 18>>, <<1980, 3, 16>>, <<1981, 5, 10>>, <<1982, 5, 9>>, <<1983, 5, 8>>,
    <<1984, 5, 6>>, <<1985, 5, 5>>, <<1986, 3, 16>>, <<1987, 3, 15>>, <<1988, 3, 20>>,
    <<1989, 3, 19>>, <<1990, 4, 1>>, <<1991, 4, 7>>, <<1992, 4, 5>>, <<1993, 4, 4>>,
    <<1994, 4, 3>>, <<1995, 4, 2>>, <<1996, 4, 7>>, <<1997, 4, 6>>, <<1998, 3, 29>>,
    <<1999, 3, 28>>, <<2000, 4, 2>>, <<2001, 4, 1>>, <<2002, 4, 7>>, <<2003, 4, 6>>,
    <<2004, 3, 28>>, <<2007, 3, 11>>, <<2008, 3, 16>>, <<2009, 3, 8>>, <<2010, 3, 14>>,
    <<2011, 3, 20>>, <<2012, 4, 1>>, <<2013, 3, 10>>, <<2014, 3, 9>>, <<2015, 3, 8>>,
    <<2016, 3, 13>>, <<2017, 3, 12>>, <<2018, 3, 11>>, <<2019, 3, 10>>, <<2020, 3, 8>>,
    <<2021, 3, 14>>, <<2022, 3, 13>> }

SaoPauloSkipped ==
    { <<1914, 1, 1>>, <<1932, 10, 3>>, <<1949, 12, 1>>, <<1950, 12, 1>>, <<1951, 12,
    1>>, <<1952, 12, 1>>, <<1963, 10, 23>>, <<1965, 1, 31>>, <<1965, 12, 1>>, <<1966,
    11, 1>>, <<1967, 11, 1>>, <<1985, 11, 2>>, <<1986, 10, 25>>, <<1987, 10, 25>>,
    <<1988, 10, 16>>, <<1989, 10, 15>>, <<1990, 10, 21>>, <<1991, 10, 20>>, <<1992, 10,
    25>>, <<1993, 10, 17>>, <<1994, 10, 16>>, <<1995, 10, 15>>, <<1996, 10, 6>>, <<1997,
    10, 6>>, <<1998, 10, 11>>, <<1999, 10, 3>>, <<2000, 10, 8>>, <<2001, 10, 14>>,
    <<2002, 11, 3>>, <<2003, 10, 19>>, <<2004, 11, 2>>, <<2005, 10, 16>>, <<2006, 11,
    5>>, <<2007, 10, 14>>, <<2008, 10, 19>>, <<2009, 10, 18>>, <<2010, 10, 17>>, <<2011,
    10, 16>>, <<2012, 10, 21>>, <<2013, 10, 20>>, <<2014, 10, 19>>, <<2015, 10, 18>>,
    <<2016, 10, 16>>, <<2017, 10, 15>>, <<2018, 11, 4>> }

SantiagoSkipped ==
    { <<1916, 7, 1>>, <<1918, 9, 10>>, <<1927, 9, 1>>, <<1928, 9, 1>>, <<1929, 9, 1>>,
    <<1930, 9, 1>>, <<1931, 9, 1>>, <<1932, 9, 1>>, <<1942, 8, 1>>, <<1946, 7, 15>>,
    <<1968, 11, 3>>, <<1969, 11, 23>>, <<1970, 10, 11>>, <<1971, 10, 10>>, <<1972, 10,
    15>>, <<1973, 9, 30>>, <<1974, 10, 13>>, <<1975, 10, 12>>, <<1976, 10, 10>>, <<1977,
    10, 9>>, <<1978, 10, 15>>, <<1979, 10, 14>>, <<1980, 10, 12>>, <<1981, 10, 11>>,
    <<1982, 10, 10>>, <<1983, 10, 9>>, <<1984, 10, 14>>, <<1985, 10, 13>>, <<1986, 10,
    12>>, <<1987, 10, 11>>, <<1988, 10, 9>>, <<1989, 10, 15>>, <<1990, 9, 16>>, <<1991,
    10, 13>>, <<1992, 10, 11>>, <<1993, 10, 10>>, <<1994, 10, 9>>, <<1995, 10, 15>>,
    <<1996, 10, 13>>, <<1997, 10, 12>>, <<1998, 9, 27>>, <<1999, 10, 10>>, <<2000, 10,
    15>>, <<2001, 10, 14>>, <<2002, 10, 13>>, <<2003, 10, 12>>, <<2004, 10, 10>>,
    <<2005, 10, 9>>, <<2006, 10, 15>>, <<2007, 10, 14>>, <<2008, 10, 12>>, <<2009, 10,
    11>>, <<2010, 10, 10>>, <<2011, 8, 21>>, <<2012, 9, 2>>, <<2013, 9, 8>>, <<2014, 9,
    7>>, <<2016, 8, 14>>, <<2017, 8, 13>>, <<2018, 8, 12>>, <<2019, 9, 8>>, <<2020, 9,
    6>>, <<2021, 9, 5>>, <<2022, 9, 11>> }

BeirutSkipped ==
    { <<1920, 3, 28>>, <<1921, 4, 3>>, <<1922, 3, 26>>, <<1923, 4, 22>>, <<1957, 5, 1>>,
    <<1958, 5, 1>>, <<1959, 5, 1>>, <<1960, 5, 1>>, <<1961, 5, 1>>, <<1972, 6, 22>>,
    <<1973, 5, 1>>, <<1974, 5, 1>>, <<1975, 5, 1>>, <<1976, 5, 1>>, <<1977, 5, 1>>,
    <<1978, 4, 30>>, <<1984, 5, 1>>, <<1985, 5, 1>>, <<1986, 5, 1>>, <<1987, 5, 1>>,
    <<1988, 6, 1>>, <<1989, 5, 10>>, <<1990, 5, 1>>, <<1991, 5, 1>>, <<1992, 5, 1>>,
    <<1993, 3, 28>>, <<1994, 3, 27>>, <<1995, 3, 26>>, <<1996, 3, 31>>, <<1997, 3, 30>>,
    <<1998, 3, 29>>, <<1999, 3, 28>>, <<2000, 3, 26>>, <<2001, 3, 25>>, <<2002, 3, 31>>,
    <<2003, 3, 30>>, <<2004, 3, 28>>, <<2005, 3, 27>>, <<2006, 3, 26>>, <<2007, 3, 25>>,
    <<2008, 3, 30>>, <<2009, 3, 29>>, <<2010, 3, 28>>, <<2011, 3, 27>>, <<2012, 3, 25>>,
    <<2013, 3, 31>>, <<2014, 3, 30>>, <<2015, 3, 29>>, <<2016, 3, 27>>, <<2017, 3, 26>>,
    <<2018, 3, 25>>, <<2019, 3, 31>>, <<2020, 3, 29>>, <<2021, 3, 28>>, <<2022, 3, 27>>
    }

\* the last year the tables above cover; later years follow the zone's standing rule
LastTabledYear == 2022

\* local midnight of the date does not exist in the zone
MidnightSkipped(loc, year, month, day) ==
    LET sunday == DayOfWeek(year, month, day) = 0
        later == year > LastTabledYear
    IN  CASE loc = "America/Havana" ->
               \/ <<year, month, day>> \in HavanaSkipped
               \/ later /\ month = 3 /\ day \in 8..14 /\ sunday
          [] loc = "America/Sao_Paulo" -> <<year, month, day>> \in SaoPauloSkipped
          [] loc = "America/Santiago" ->
               \/ <<year, month, day>> \in SantiagoSkipped
               \/ later /\ month = 9 /\ day \in 2..8 /\ sunday
          [] loc = "Asia/Beirut" ->
               \/ <<year, month, day>> \in BeirutSkipped
               \/ later /\ month = 3 /\ day \in 25..31 /\ sunday
          [] OTHER -> FALSE

\* time.Date(year, month, day, 0, 0, 0, 0, loc): midnight of the normalised date in
\* loc. When the zone's clock skipped that midnight, time.Date settles on the
\* instant of the transition: west of UTC it reads as the last hour of the day
\* before, east of UTC as 01:00 of the same day.
Date(year, month, day, loc) ==
    LET d == Civil(year, month, day)
        at(date, h) == [year |-> date.year, month |-> date.month, day |-> date.day,
                        hour |-> h]
    IN  IF ~MidnightSkipped(loc, d.year, d.month, d.day) THEN at(d, 0)
        ELSE IF WestOfUTC(loc) THEN at(Civil(d.year, d.month, d.day - 1), 23)
        ELSE at(d, 1)

\* the century guess: year <= 22 is 20xx, anything else 19xx
CenturyBelow22(year) == IF year < 22 THEN 2000 + year ELSE 1900 + year
CenturyTwoDigitOnly(year) ==
    IF year <= 22 THEN 2000 + year ELSE IF year <= 99 THEN 1900 + year ELSE year
Century(year) == IF year <= 22 THEN 2000 + year ELSE 1900 + year

DateErr(e) == [t |-> ZeroTime, err |-> e]

parseDate(s) ==
    IF Len(s) = 0 THEN DateErr("ErrEmptyString")
    ELSE LET matches == FindAllDigitRuns(s, 3) IN
      IF Len(matches) < 3 THEN DateErr("ErrInvalidDateString")
      ELSE LET m == Atoi(matches[1]) IN
        IF ~m.ok THEN DateErr("failed to parse month to integer")
        ELSE LET month == iToMonth(m.val) IN
          IF ~month.ok THEN DateErr("invalid integer given for conversion to month")
          ELSE LET day == Atoi(matches[2]) IN
            IF ~day.ok THEN DateErr("failed to parse day to integer")
            ELSE LET year == Atoi(matches[3]) IN
              IF ~year.ok THEN DateErr("failed to parse year to integer")
              ELSE [t |-> Date(Century(year.val), month.month, day.val, local), err |-> "nil"]

-----------------------------------------------------------------------------
(* parseBoolFromYesNo, the record builder and the loop of unmarshal.       *)

parseBoolFromYesNo(s) ==
    IF Len(s) = 0 THEN [val |-> FALSE, err |-> "ErrEmptyString"]
    ELSE IF ToLower(s) = <<"y", "e", "s">> THEN [val |-> TRUE, err |-> "nil"]
    ELSE IF ToLower(s) = <<"n", "o">> THEN [val |-> FALSE, err |-> "nil"]
    ELSE [val |-> FALSE, err |-> "failed to parse bool from string"]

DateColumns ==
    {StatusFHBMIdentified, StatusFIRMIdentified, StatusCurrEffMapDate, StatusRegEmerDate}
BoolColumns == {StatusTribal, StatusParticipatingCommunity}

\* record[col]: Go indexes from 0
Cell(record, col) == record[col + 1]

\* the test after each parseDate call: nil, ErrEmptyString and
\* ErrInvalidDateString let the row go on, any other error returns
DateFatalOnInvalid(r) == r.err \notin {"nil", "ErrEmptyString"}
DateFatal(r) == r.err \notin {"nil", "ErrEmptyString", "ErrInvalidDateString"}

\* the test after each parseBoolFromYesNo call: nil and ErrEmptyString let the
\* row go on, any other error returns
BoolFatal(r) == r.err \notin {"nil", "ErrEmptyString"}

\* a *time.Time field: <<>> is the nil pointer, <<t>> points to t
DateField(cell) ==
    LET r == parseDate(cell) IN IF r.err = "nil" THEN <<r.t>> ELSE <<>>

BoolField(cell) ==
    LET r == parseBoolFromYesNo(cell) IN IF r.err = "nil" THEN r.val ELSE FALSE

\* the identifier: left 0 when the cell is empty, else strconv.Atoi
CIDWithoutEmptyTest(cidString) == Atoi(cidString)
CID(cidString) == IF Len(cidString) > 0 THEN Atoi(cidString) ELSE [ok |-> TRUE, val |-> 0]

\* the NFIPCommunityStatus the loop body assigns from a cleaned 15-cell record
BuildRecord(rec) ==
    [CID |-> CID(Cell(rec, StatusCID)).val,
     CommunityName |-> Cell(rec, StatusCommunityName),
     County |-> Cell(rec, StatusCounty),
     FHBMIdentified |-> DateField(Cell(rec, StatusFHBMIdentified)),
     FIRMIdentified |-> DateField(Cell(rec, StatusFIRMIdentified)),
     CurrEffMapDate |-> DateField(Cell(rec, StatusCurrEffMapDate)),
     RegEmerDate |-> DateField(Cell(rec, StatusRegEmerDate)),
     Tribal |-> BoolField(Cell(rec, StatusTribal)),
     CRSEntryDate |-> Cell(rec, StatusCRSEntryDate),
     CurrEffDate |-> Cell(rec, StatusCurrEffDate),
     CurClass |-> Cell(rec, StatusCurClass),
     PercentDiscSFHA |-> Cell(rec, StatusPercentDiscSFHA),
     PercentNonSFHA |-> Cell(rec, StausPercentNonSFHA),
     Program |-> Cell(rec, StatusProgram),
     ParticipatingCommunity |-> BoolField(Cell(rec, StatusParticipatingCommunity))]

\* what stops the loop body at column col of the cleaned record, the columns being
\* used in increasing order: an index past the end of the record (a run-time
\* panic), or a parser error the body returns
Stops(rec, col) ==
    \/ col >= Len(rec)
    \/ col = StatusCID /\ ~CID(Cell(rec, col)).ok
    \/ col \in DateColumns /\ DateFatal(parseDate(Cell(rec, col)))
    \/ col \in BoolColumns /\ BoolFatal(parseBoolFromYesNo(Cell(rec, col)))

StopColumns(rec) == {col \in StatusCID..StatusParticipatingCommunity : Stops(rec, col)}

FirstStop(rec) == CHOOSE col \in StopColumns(rec) : \A o \in StopColumns(rec) : col <= o

\* the error text of the return taken at column col
StopMessage(rec, col) ==
    IF col = StatusCID THEN "strconv.Atoi: parsing failed"
    ELSE IF col \in DateColumns THEN parseDate(Cell(rec, col)).err
    ELSE parseBoolFromYesNo(Cell(rec, col)).err

\* return nil, fmt.Errorf("** ERR: %s on line %d", ...); col names the column
\* whose parse returned the error, -1 for an error of the reader
Error(msg, line, col) == [communities |-> <<>>, err |-> msg, line |-> line, col |-> col]

\* c.addCommunity(&nc)
addCommunityInFront(coll, nc) == <<nc>> \o coll
addCommunity(coll, nc) == Append(coll, nc)

\* the row number the loop starts counting data rows from, once the header is skipped
LineAfterHeader == lineNumber + 1

-----------------------------------------------------------------------------
(* Values of the variables an operation does not use.                      *)

NoRet == [communities |-> <<>>, err |-> "none", line |-> 0, col |-> -1]
NoDate == [t |-> ZeroTime, err |-> "none"]

IdleLoad ==
    /\ fieldsPerRecord = 0 /\ file = <<>> /\ firstPass = TRUE /\ lineNumber = 1
    /\ communities = <<>> /\ ret = NoRet
IdleDate == dateIn = <<>> /\ dateOut = NoDate /\ local = "UTC"
IdleClean == cleanIn = <<>> /\ cleanOut = <<>>
IdleSearch ==
    c = <<>> /\ termArg = <<>> /\ term = <<>> /\ idx = 0 /\ matchingCommunities = <<>>

-----------------------------------------------------------------------------
(* parseDate applied to date cells.                                        *)

MaxMonthRun == 13
MaxDayRun == 32
MaxYearRun == 99

\* third runs longer than two digits
LongYears == {100, 1999, 2005, 100000000}

Pad2(n) == IF n < 10 THEN <<"0">> \o UItoa(n) ELSE UItoa(n)

\* month/day/year written the ways the registry writes them
DateText(m, d, y, style) ==
    CASE style = 1 -> UItoa(m) \o <<"/">> \o UItoa(d) \o <<"/">> \o UItoa(y)
      [] style = 2 -> Pad2(m) \o <<"-">> \o Pad2(d) \o <<"-">> \o Pad2(y)
      [] OTHER -> <<" ">> \o UItoa(m) \o <<"/">> \o UItoa(d) \o <<"/">> \o UItoa(y)
                    \o <<" ", "7">>

\* cells that are no month/day/year triple, and one whose year exceeds the int range
OddDateCells ==
    { <<>>, <<"N", "/", "A">>, <<"1", "/", "2">>, <<"1", "2">>, <<"3", "/", "4", "/">>,
      <<"3", "/", "4", "/", "1","0","0","0","0","0","0","0","0","0",
        "0","0","0","0","0","0","0","0","0","0">> }

DateCells ==
    OddDateCells \cup
    { DateText(m, d, y, style) :
        m \in 0..MaxMonthRun, d \in 0..MaxDayRun,
        y \in (0..MaxYearRun) \cup LongYears, style \in 1..3 }

InitDate ==
    /\ pc = "parseDate"
    /\ dateIn \in DateCells
    /\ dateOut = NoDate
    /\ local \in Locations
    /\ IdleLoad /\ IdleClean /\ IdleSearch

ParseDate ==
    /\ pc = "parseDate"
    /\ dateOut' = parseDate(dateIn)
    /\ pc' = "parsed"
    /\ UNCHANGED <<dateIn, local, loadVars, cleanVars, searchVars>>

NextDate == ParseDate

SpecDate == InitDate /\ [][NextDate]_vars

-----------------------------------------------------------------------------
(* Digit runs of a cell, as the claims speak of them: maximal intervals of *)
(* digit characters, numbered left to right.                               *)

RunStarts(s) == {i \in 1..Len(s) : s[i] \in Digits /\ (i = 1 \/ s[i - 1] \notin Digits)}

RunCount(s) == Cardinality(RunStarts(s))

NthRun(s, n) ==
    LET i == CHOOSE a \in RunStarts(s) : Cardinality({b \in RunStarts(s) : b < a}) = n - 1
        j == CHOOSE b \in i..Len(s) :
                /\ \A k \in i..b : s[k] \in Digits
                /\ b = Len(s) \/ s[b + 1] \notin Digits
    IN  SubSeq(s, i, j)

RECURSIVE Pow10(_)
Pow10(n) == IF n = 0 THEN 1 ELSE 10 * Pow10(n - 1)

\* the number a digit run of at most nine digits denotes
RECURSIVE RunValue(_)
RunValue(r) ==
    IF r = <<>> THEN 0 ELSE DigitVal(Head(r)) * Pow10(Len(r) - 1) + RunValue(Tail(r))

\* a run short enough to read as a month or a day
Short(r) == Len(r) <= 4

\* the cell has three runs, the first a month and the second short
MonthLed(s) ==
    /\ RunCount(s) >= 3
    /\ Short(NthRun(s, 1)) /\ RunValue(NthRun(s, 1)) \in 1..12
    /\ Short(NthRun(s, 2))

\* C6 as stated: month = first run, day = second run and year = 2000 + y when
\* y <= 22, else 1900 + y, for every cell led by a month whose third run is a
\* two-digit year.
C6_AsStated ==
    (pc = "parsed" /\ MonthLed(dateIn) /\ Len(NthRun(dateIn, 3)) <= 2) =>
        LET m == RunValue(NthRun(dateIn, 1))
            d == RunValue(NthRun(dateIn, 2))
            y == RunValue(NthRun(dateIn, 3))
        IN  /\ dateOut.err = "nil"
            /\ dateOut.t.year = (IF y <= 22 THEN 2000 + y ELSE 1900 + y)
            /\ dateOut.t.month = m
            /\ dateOut.t.day = d

\* C6, amended: the same, for the cells whose second run is a day of that month
\* of that year (1..28, 29, 30 or 31) and whose date has a midnight in the
\* process's local zone. A day outside the month is carried into the
\* neighbouring month by time.Date, and a midnight the zone's clock skipped is
\* moved to the transition; the claim covers neither.
C6_TwoDigitYearCentury ==
    (pc = "parsed" /\ MonthLed(dateIn) /\ Len(NthRun(dateIn, 3)) <= 2) =>
        LET m == RunValue(NthRun(dateIn, 1))
            d == RunValue(NthRun(dateIn, 2))
            y == RunValue(NthRun(dateIn, 3))
            yy == IF y <= 22 THEN 2000 + y ELSE 1900 + y
        IN  (d \in 1..DaysIn(m, yy) /\ ~MidnightSkipped(local, yy, m, d)) =>
                /\ dateOut.err = "nil"
                /\ dateOut.t.year = yy
                /\ dateOut.t.month = m
                /\ dateOut.t.day = d

\* "3/4/22" parsed to 2022-03-04, the last year of the 2000 side of the
\* threshold, in a zone that has skipped other midnights of that month
C6_Witness ==
    /\ pc = "parsed"
    /\ local = "America/Havana"
    /\ dateIn = <<"3", "/", "4", "/", "2", "2">>
    /\ dateOut = [t |-> [year |-> 2022, month |-> 3, day |-> 4, hour |-> 0], err |-> "nil"]

\* C10 as stated: a third run of any length with value y > 22 parses, with year
\* 1900 + y.
C10_AsStated ==
    (pc = "parsed" /\ MonthLed(dateIn)) =>
        LET sig == TrimLeft(NthRun(dateIn, 3), {"0"})
        IN  (Len(sig) > 9 \/ RunValue(sig) > 22) =>
                /\ dateOut.err = "nil"
                /\ Len(sig) <= 9 => dateOut.t.year = 1900 + RunValue(sig)

\* C10, amended: a third run of up to nine digits with value y > 22 is not
\* rejected for its length; when the second run is a day of that month and the
\* date has a midnight in the process's local zone, the parse succeeds with year
\* 1900 + y, month and day as written.
C10_LongYearAccepted ==
    (pc = "parsed" /\ MonthLed(dateIn) /\ Len(NthRun(dateIn, 3)) <= 9) =>
        LET m == RunValue(NthRun(dateIn, 1))
            d == RunValue(NthRun(dateIn, 2))
            y == RunValue(NthRun(dateIn, 3))
        IN  (/\ y > 22
             /\ d \in 1..DaysIn(m, 1900 + y)
             /\ ~MidnightSkipped(local, 1900 + y, m, d)) =>
                /\ dateOut.err = "nil"
                /\ dateOut.t.year = 1900 + y
                /\ dateOut.t.month = m
                /\ dateOut.t.day = d

\* "3/4/1999" parsed to 3899-03-04
C10_Witness ==
    /\ pc = "parsed"
    /\ local = "Asia/Beirut"
    /\ dateIn = <<"3", "/", "4", "/", "1", "9", "9", "9">>
    /\ dateOut = [t |-> [year |-> 3899, month |-> 3, day |-> 4, hour |-> 0], err |-> "nil"]

-----------------------------------------------------------------------------
(* The load: unmarshal reading records from the csv.Reader.                *)

MaxRows == 2

Str_012 == <<"=", "\"", "0", "1", "2", "\"">>
Str_abc == <<"a", "b", "c">>
Str_12a == <<"1", "2", "a">>
Str_m5 == <<"-", "5">>
Str_Ana == <<"A", "n", "a">>
Str_Kent == <<"=", "K", "e", "n", "t">>
Str_NA == <<"N", "/", "A">>
Str_3_4_22 == <<"3", "/", "4", "/", "2", "2">>
Str_3_4_23 == <<"\"", "3", "/", "4", "/", "2", "3", "\"">>
Str_13_4_22 == <<"1", "3", "/", "4", "/", "2", "2">>
Str_3_13_22 == <<"3", "/", "1", "3", "/", "2", "2">>
Str_0_1_99 == <<"0", "/", "1", "/", "9", "9">>
Str_Yes == <<"Y", "e", "s">>
Str_YES == <<"Y", "E", "S">>
Str_no == <<"=", "\"", "n", "o", "\"">>
Str_maybe == <<"m", "a", "y", "b", "e">>
Str_10 == <<"1", "0">>
Str_Regular == <<"R", "e", "g">>

\* a well-formed data row of the registry
BaseRow ==
    <<Str_012, Str_Ana, Str_Kent, Str_3_4_22, <<>>, Str_3_4_22, Str_3_4_22, Str_no,
      Str_3_4_22, <<>>, Str_10, Str_10, <<>>, Str_Regular, Str_YES>>

With(col, cell) == [BaseRow EXCEPT ![col + 1] = cell]

CidCells == {<<>>, Str_abc, Str_12a, Str_m5}
RowDateCells == {<<>>, Str_NA, Str_3_4_23, Str_3_13_22, Str_13_4_22, Str_0_1_99}
RowBoolCells == {<<>>, Str_Yes, Str_no, Str_maybe}

\* rows with more or fewer cells than the layout
ShortRow == <<Str_012, Str_Ana, Str_Kent>>
LongRow == BaseRow \o <<Str_10>>

Rows ==
    {BaseRow}
      \cup {With(StatusCID, x) : x \in CidCells}
      \cup {With(col, x) : col \in DateColumns, x \in RowDateCells}
      \cup {With(col, x) : col \in BoolColumns, x \in RowBoolCells}
      \cup {[With(StatusFIRMIdentified, Str_NA) EXCEPT ![StatusTribal + 1] = Str_maybe]}
      \cup {ShortRow, [ShortRow EXCEPT ![StatusCID + 1] = Str_abc], LongRow}

Headers == {BaseRow, ShortRow, LongRow}

InitLoad ==
    /\ pc = "unmarshal"
    /\ fieldsPerRecord = 0
    /\ file = <<>>
    /\ firstPass = TRUE
    /\ lineNumber = 1
    /\ communities = <<>>
    /\ ret = NoRet
    /\ dateIn = <<>> /\ dateOut = NoDate /\ local \in Locations
    /\ IdleClean /\ IdleSearch

\* first pass of the loop: the header record is read and dropped, whatever the
\* reader returned with it; the reader fixes FieldsPerRecord to its cell count
SkipHeader ==
    /\ pc = "unmarshal" /\ firstPass
    /\ \E header \in Headers \cup {<<>>} : fieldsPerRecord' = Len(header)
    /\ firstPass' = FALSE
    /\ lineNumber' = LineAfterHeader
    /\ UNCHANGED <<pc, file, communities, ret, dateVars, cleanVars, searchVars>>

\* reader.Read() has another record to give (none after an empty file)
Reading(record) ==
    /\ pc = "unmarshal" /\ ~firstPass
    /\ fieldsPerRecord > 0
    /\ Len(file) < MaxRows
    /\ record \in Rows
    /\ file' = Append(file, record)

\* reader.Read() returns ErrFieldCount: the record's cell count differs from the
\* first record's; the loop returns the error with the line number
ReadFieldCountError ==
    \E record \in Rows :
        /\ Reading(record)
        /\ Len(record) # fieldsPerRecord
        /\ ret' = Error("wrong number of fields", lineNumber, -1)
        /\ pc' = "returned"
        /\ UNCHANGED <<fieldsPerRecord, firstPass, lineNumber, communities,
                       dateVars, cleanVars, searchVars>>

\* the loop body returns the error of the identifier, a date or a yes/no column
RowError ==
    \E record \in Rows :
        /\ Reading(record)
        /\ Len(record) = fieldsPerRecord
        /\ LET rec == CleanRecord(record) IN
             /\ StopColumns(rec) # {}
             /\ FirstStop(rec) < Len(rec)
             /\ ret' = Error(StopMessage(rec, FirstStop(rec)), lineNumber, FirstStop(rec))
        /\ pc' = "returned"
        /\ UNCHANGED <<fieldsPerRecord, firstPass, lineNumber, communities,
                       dateVars, cleanVars, searchVars>>

\* the loop body indexes the record past its end: index out of range, the
\* goroutine panics and unmarshal returns nothing
RowPanic ==
    \E record \in Rows :
        /\ Reading(record)
        /\ Len(record) = fieldsPerRecord
        /\ LET rec == CleanRecord(record) IN
             /\ StopColumns(rec) # {}
             /\ FirstStop(rec) >= Len(rec)
        /\ pc' = "panicked"
        /\ UNCHANGED <<fieldsPerRecord, firstPass, lineNumber, communities, ret,
                       dateVars, cleanVars, searchVars>>

\* the loop body runs to its end: lineNumber++ and the record is appended
RowAppend ==
    \E record \in Rows :
        /\ Reading(record)
        /\ Len(record) = fieldsPerRecord
        /\ LET rec == CleanRecord(record) IN
             /\ StopColumns(rec) = {}
             /\ communities' = addCommunity(communities, BuildRecord(rec))
        /\ lineNumber' = lineNumber + 1
        /\ UNCHANGED <<pc, fieldsPerRecord, firstPass, ret, dateVars, cleanVars, searchVars>>

\* reader.Read() returns io.EOF: break, return communities, nil
ReadEOF ==
    /\ pc = "unmarshal" /\ ~firstPass
    /\ ret' = [communities |-> communities, err |-> "nil", line |-> 0, col |-> -1]
    /\ pc' = "returned"
    /\ UNCHANGED <<fieldsPerRecord, file, firstPass, lineNumber, communities,
                   dateVars, cleanVars, searchVars>>

NextLoad ==
    \/ SkipHeader
    \/ ReadFieldCountError
    \/ RowError
    \/ RowPanic
    \/ RowAppend
    \/ ReadEOF

SpecLoad == InitLoad /\ [][NextLoad]_vars

-----------------------------------------------------------------------------
(* Claims about the load. Data row k (1-based) of the file is file[k]; its  *)
(* row number in the file is k + 1, the header being row 1.                 *)

DataRows == 1..Len(file)

RowNumber(k) == k + 1

\* the load returned an error that the parse of column col of data row k produced
ErrorFrom(k, col) ==
    pc = "returned" /\ ret.err # "nil" /\ ret.line = RowNumber(k) /\ ret.col = col

\* the load aborted at data row k: an error citing its row number, no collection
AbortedAt(k) ==
    /\ pc = "returned" /\ ret.err # "nil"
    /\ ret.line = RowNumber(k)
    /\ ret.communities = <<>>
    /\ Len(file) = k

\* data row k was built and appended
Appended(k) == k <= Len(communities)

\* data row k was stopped by some column other than col
StoppedElsewhere(k, col) ==
    /\ Len(file) = k
    /\ \/ pc = "panicked"
       \/ pc = "returned" /\ ret.err # "nil" /\ ret.col # col

\* the cleaned cell of column col of data row k
Cleaned(k, col) == Trim(Cell(file[k], col), {"\"", "="})

HasColumn(k, col) == col < Len(file[k])

\* the date field of a built record that column col fills
DateOf(nc, col) ==
    CASE col = StatusFHBMIdentified -> nc.FHBMIdentified
      [] col = StatusFIRMIdentified -> nc.FIRMIdentified
      [] col = StatusCurrEffMapDate -> nc.CurrEffMapDate
      [] col = StatusRegEmerDate -> nc.RegEmerDate

\* the flag of a built record that column col fills
FlagOf(nc, col) == IF col = StatusTribal THEN nc.Tribal ELSE nc.ParticipatingCommunity

\* the text is yes or no in some letter case
YesOrNo(s) ==
    \/ Len(s) = 3 /\ s[1] \in {"y", "Y"} /\ s[2] \in {"e", "E"} /\ s[3] \in {"s", "S"}
    \/ Len(s) = 2 /\ s[1] \in {"n", "N"} /\ s[2] \in {"o", "O"}

\* C1: a yes/no cell that is non-empty and neither yes nor no raises no error:
\* the row is appended with the flag false (unless another column stops the
\* row) and the load goes on.
C1_UnknownFlagIsLenient ==
    \A k \in DataRows : \A col \in BoolColumns :
        (HasColumn(k, col) /\ Cleaned(k, col) # <<>> /\ ~YesOrNo(Cleaned(k, col))) =>
            /\ ~ErrorFrom(k, col)
            /\ Appended(k) \/ StoppedElsewhere(k, col)
            /\ Appended(k) => FlagOf(communities[k], col) = FALSE

\* C2: a date cell with three digit runs whose first run is no month 1..12 is
\* recoverable: no error, the field absent, the row appended (unless another
\* column stops the row).
C2_BadMonthIsRecoverable ==
    \A k \in DataRows : \A col \in DateColumns :
        (/\ HasColumn(k, col)
         /\ RunCount(Cleaned(k, col)) >= 3
         /\ Short(NthRun(Cleaned(k, col), 1))
         /\ RunValue(NthRun(Cleaned(k, col), 1)) \notin 1..12) =>
            /\ ~ErrorFrom(k, col)
            /\ Appended(k) \/ StoppedElsewhere(k, col)
            /\ Appended(k) => DateOf(communities[k], col) = <<>>

\* the text is an optional sign followed by one or more digits
IntegerText(s) ==
    LET ds == IF s # <<>> /\ s[1] \in {"+", "-"} THEN Tail(s) ELSE s
    IN  ds # <<>> /\ \A i \in 1..Len(ds) : ds[i] \in Digits

\* C3: an empty identifier cell gives identifier 0 and no error; a non-empty
\* identifier cell that is no integer aborts the whole load at that row, with an
\* error citing the row number (header = row 1) and no collection returned.
C3_IdentifierOutcome ==
    \A k \in DataRows :
        /\ Cleaned(k, StatusCID) = <<>> =>
              /\ ~ErrorFrom(k, StatusCID)
              /\ Appended(k) => communities[k].CID = 0
        /\ (Cleaned(k, StatusCID) # <<>> /\ ~IntegerText(Cleaned(k, StatusCID))) =>
              /\ AbortedAt(k)
              /\ ~Appended(k)

\* the second data row has identifier "abc": the first row was built, the load
\* returns the error for row 3 and no collection
C3_Witness ==
    /\ Len(file) = 2 /\ Cleaned(2, StatusCID) = Str_abc
    /\ Len(communities) = 1
    /\ Cleaned(1, StatusCID) = <<>> /\ communities[1].CID = 0
    /\ pc = "returned" /\ ret.line = 3 /\ ret.col = StatusCID /\ ret.communities = <<>>

\* C4: a load that returns without error returns one record per data row read,
\* the i-th built from the i-th data row.
C4_OneRecordPerRowInOrder ==
    (pc = "returned" /\ ret.err = "nil") =>
        /\ Len(ret.communities) = Len(file)
        /\ \A i \in DataRows :
              LET row == file[i]
                  nc == ret.communities[i]
              IN  /\ nc = BuildRecord([j \in 1..Len(row) |-> Trim(row[j], {"\"", "="})])
                  /\ nc.CommunityName = Cleaned(i, StatusCommunityName)
                  /\ nc.Program = Cleaned(i, StatusProgram)

\* a finished load of two different rows
C4_Witness ==
    /\ pc = "returned" /\ ret.err = "nil"
    /\ Len(file) = 2 /\ file[1] # file[2]
    /\ Len(ret.communities) = 2 /\ ret.communities[1] # ret.communities[2]

\* C7: a non-empty date cell with fewer than three digit runs leaves that date
\* field absent and raises no error: the row is appended with its other fields
\* built as usual, unless another column stops the row.
C7_FewRunsLeavesDateAbsent ==
    \A k \in DataRows : \A col \in DateColumns :
        (/\ HasColumn(k, col)
         /\ Cleaned(k, col) # <<>>
         /\ RunCount(Cleaned(k, col)) < 3) =>
            /\ ~ErrorFrom(k, col)
            /\ Appended(k) \/ StoppedElsewhere(k, col)
            /\ Appended(k) =>
                  /\ DateOf(communities[k], col) = <<>>
                  /\ communities[k].CommunityName = Cleaned(k, StatusCommunityName)
                  /\ communities[k].County = Cleaned(k, StatusCounty)
                  /\ communities[k].CurClass = Cleaned(k, StatusCurClass)
                  /\ communities[k].Program = Cleaned(k, StatusProgram)

\* a row with "N/A" in the FIRM column was appended without that date, and the
\* row after it was processed too
C7_Witness ==
    /\ Len(file) = 2 /\ Len(communities) = 2
    /\ Cleaned(1, StatusFIRMIdentified) = Str_NA
    /\ communities[1].FIRMIdentified = <<>>
    /\ communities[1].FHBMIdentified = <<[year |-> 2022, month |-> 3, day |-> 4, hour |-> 0]>>
    /\ pc = "returned" /\ ret.err = "nil"

\* the number of columns of the layout
LayoutColumns == StatusParticipatingCommunity + 1

\* C9: a data row whose cell count is not that of the layout is a fatal error
\* carrying the row number, whatever the header's cell count; the load never
\* crashes on it and never builds a record from it.
C9_WrongCellCountIsFatal ==
    \A k \in DataRows :
        Len(file[k]) # LayoutColumns =>
            /\ pc # "panicked"
            /\ ~Appended(k)
            /\ AbortedAt(k)

-----------------------------------------------------------------------------
(* The cleaning of a cell wrapped as ="N".                                 *)

MaxCleanLen == 4

CleanAlphabet == {"0", "a", " ", "=", "\""}

CleanTexts ==
    UNION {[1..n -> CleanAlphabet] : n \in 0..MaxCleanLen} \cup {<<"0", "1", "2", "3", "4">>}

\* the cell text ="N"
Wrapped(n) == <<"=", "\"">> \o n \o <<"\"">>

InitClean ==
    /\ pc = "clean"
    /\ cleanIn \in CleanTexts
    /\ cleanOut = <<>>
    /\ IdleLoad /\ IdleDate /\ IdleSearch

Clean ==
    /\ pc = "clean"
    /\ cleanOut' = CleanRecord(<<Wrapped(cleanIn)>>)[1]
    /\ pc' = "cleaned"
    /\ UNCHANGED <<cleanIn, loadVars, dateVars, searchVars>>

NextClean == Clean

SpecClean == InitClean /\ [][NextClean]_vars

\* C8 as stated: cleaning ="N" yields exactly N for every N, also when N begins
\* or ends with a quote or an equals sign.
C8_AsStated == pc = "cleaned" => cleanOut = cleanIn

\* C8, amended: cleaning ="N" yields exactly N for every N that neither begins
\* nor ends with a quote or an equals sign, the empty N included.
C8_WrappedCleansToN ==
    (/\ pc = "cleaned"
     /\ cleanIn = <<>> \/ (cleanIn[1] \notin {"\"", "="} /\ cleanIn[Len(cleanIn)] \notin {"\"", "="}))
        => cleanOut = cleanIn

\* ="01234" cleaned to 01234
C8_Witness ==
    /\ pc = "cleaned"
    /\ cleanIn = <<"0", "1", "2", "3", "4">>
    /\ cleanOut = <<"0", "1", "2", "3", "4">>

-----------------------------------------------------------------------------
(* Search over a loaded collection.                                        *)

MaxColl == 3

Str_Anaheim == <<"A", "n", "a", "h", "e", "i", "m">>
Str_Indiana == <<"I", "n", "d", "i", "a", "n", "a">>
Str_BANANA == <<"B", "A", "N", "A", "N", "A">>
Str_Gary == <<"G", "a", "r", "y">>

\* a loaded record with the given identifier, name and county
Community(cid, name, county) ==
    [BuildRecord(CleanRecord(BaseRow)) EXCEPT
        !.CID = cid, !.CommunityName = name, !.County = county]

SearchRecords ==
    { Community(12, Str_Anaheim, Str_Kent),
      Community(121, Str_Gary, Str_Indiana),
      Community(0, <<>>, <<>>),
      Community(-5, Str_BANANA, Str_Gary),
      Community(99, Str_Gary, Str_Ana),
      Community(12, Str_Anaheim, Str_Indiana) }

SearchTerms ==
    { <<>>, <<"a", "n", "a">>, <<"A", "N", "A">>, Str_Ana, <<"9", "9", "9", "9", "9">>,
      <<"1", "2">>, <<"1">>, <<"2", "1">>, <<"-">>, <<"G", "A">>, <<"x">>, <<"n", "a", "h">> }

InitSearch ==
    /\ IdleLoad /\ IdleDate /\ IdleClean
    /\ pc = "Search"
    /\ c \in UNION {[1..n -> SearchRecords] : n \in 0..MaxColl}
    /\ termArg \in SearchTerms
    /\ term = termArg
    /\ idx = 0
    /\ matchingCommunities = <<>>

\* the condition of the loop body, term already lowercased
MatchesNameOnly(community, t) == Contains(ToLower(community.CommunityName), t)
Matches(community, t) ==
    \/ Contains(ToLower(community.CommunityName), t)
    \/ Contains(ToLower(community.County), t)
    \/ Contains(Itoa(community.CID), t)

\* term = strings.ToLower(term)
SearchLower ==
    /\ pc = "Search"
    /\ term' = ToLower(term)
    /\ pc' = "range"
    /\ UNCHANGED <<c, termArg, idx, matchingCommunities, loadVars, dateVars, cleanVars>>

\* one iteration of the range loop on a matching community
SearchAppend ==
    /\ pc = "range" /\ idx < Len(c)
    /\ Matches(c[idx + 1], term)
    /\ matchingCommunities' = Append(matchingCommunities, c[idx + 1])
    /\ idx' = idx + 1
    /\ UNCHANGED <<pc, c, termArg, term, loadVars, dateVars, cleanVars>>

\* one iteration of the range loop on a community that does not match
SearchSkip ==
    /\ pc = "range" /\ idx < Len(c)
    /\ ~Matches(c[idx + 1], term)
    /\ idx' = idx + 1
    /\ UNCHANGED <<pc, c, termArg, term, matchingCommunities, loadVars, dateVars, cleanVars>>

\* return &matchingCommunities
SearchReturn ==
    /\ pc = "range" /\ idx = Len(c)
    /\ pc' = "found"
    /\ UNCHANGED <<searchVars, loadVars, dateVars, cleanVars>>

NextSearch == SearchLower \/ SearchAppend \/ SearchSkip \/ SearchReturn

SpecSearch == InitSearch /\ [][NextSearch]_vars

\* sub occurs in s at some offset
SubstringOf(sub, s) ==
    \E i \in 0..(Len(s) - Len(sub)) : \A j \in 1..Len(sub) : s[i + j] = sub[j]

\* the records of c the claim selects for term t
Selected(t) ==
    {i \in 1..Len(c) :
        \/ SubstringOf(ToLower(t), ToLower(c[i].CommunityName))
        \/ SubstringOf(ToLower(t), ToLower(c[i].County))
        \/ SubstringOf(ToLower(t), Itoa(c[i].CID))}

\* C5: Search(t) returns exactly the records of c for which lowercase(t) is a
\* substring of the lowercased name, of the lowercased county or of the decimal
\* identifier, in c's order; an empty sequence when none matches.
C5_SearchIsOrderedFilter ==
    pc = "found" =>
        /\ Len(matchingCommunities) = Cardinality(Selected(termArg))
        /\ \A i \in Selected(termArg) :
              matchingCommunities[Cardinality({j \in Selected(termArg) : j <= i})] = c[i]

\* "ana" finds Anaheim (by name) and Gary, Indiana (by county), in that order,
\* and passes over the record between them
C5_Witness ==
    /\ pc = "found"
    /\ termArg = <<"a", "n", "a">>
    /\ c = <<Community(12, Str_Anaheim, Str_Kent), Community(0, <<>>, <<>>),
             Community(121, Str_Gary, Str_Indiana)>>
    /\ matchingCommunities = <<c[1], c[3]>>

====
